---- MODULE Spec2Model ----
(***************************************************************************)
(* Three-body simulator: the Physics engine (physics.cpp), the Body data   *)
(* (body.h) and the fixed-timestep accumulator loop of App::run            *)
(* (application.h).                                                        *)
(*                                                                         *)
(* Numbers.  The C++ code computes in float/double.  The model computes    *)
(* the same expressions in exact rational arithmetic, extended with the    *)
(* IEEE non-finite values: a number is a pair <<n, d>> with d >= 0 in      *)
(* lowest terms; <<1,0>> is +Inf, <<-1,0>> is -Inf and <<0,0>> is NaN.     *)
(* In the bodies' arithmetic, rounding to the nearest float is the one      *)
(* thing left out.                                                         *)
(*                                                                         *)
(* The clock.  App::accumulator is a float and is compared with the float  *)
(* dt, so the accumulator loop is modelled with float rounding: times are  *)
(* whole numbers of ticks, a tick being half the spacing of the floats     *)
(* around dt, and every assignment to the accumulator rounds to the        *)
(* nearest float (see RoundFloat).                                         *)
(*                                                                         *)
(* Vectors.  glm::vec3 is modelled by its x and y components, <<x, y>>;    *)
(* y is the vertical axis the ground plane acts on.  The scenes keep every *)
(* body that takes part in a pairwise computation on the line x = 0, so    *)
(* every vector that is normalised or measured is axis-aligned and its     *)
(* length is an exact rational (see AxisAligned).                          *)
(*                                                                         *)
(* Units.  Mass is measured in units of 1/GRAV_CONST kg (and force in the  *)
(* matching unit), which makes the gravitational constant 1; lengths and   *)
(* times are in the code's own units.                                      *)
(***************************************************************************)
EXTENDS Integers, Sequences, FiniteSets, TLC

--------------------------------------------------------------------------
(* Extended rational arithmetic *)

Abs(n) == IF n < 0 THEN -n ELSE n

Sign(n) == IF n < 0 THEN -1 ELSE IF n > 0 THEN 1 ELSE 0

RECURSIVE Gcd(_, _)
Gcd(a, b) == IF b = 0 THEN a ELSE Gcd(b, a % b)

\* The integers the model computes with end at IntMax.  A number whose exact
\* value needs a larger numerator or denominator is OutOfRange; every
\* operation on it gives OutOfRange, every comparison with it is false, and
\* the specification takes no step that meets one (see Representable).
IntMax == 2147483646 + 1
OutOfRange == <<0, -1>>
MulOk(x, y) == x = 0 \/ y = 0 \/ Abs(x) <= IntMax \div Abs(y)
AddOk(x, y) == IF x >= 0 THEN y <= IntMax - x ELSE y >= (-IntMax) - x

\* n/d in lowest terms with a non-negative denominator; x/0 is +-Inf or NaN
Norm(n, d) ==
    IF d = 0 THEN <<Sign(n), 0>>
    ELSE LET g == Gcd(Abs(n), Abs(d))
             s == IF d < 0 THEN -1 ELSE 1
         IN <<s * (n \div g), s * (d \div g)>>

R(n, d) == Norm(n, d)
Zero == <<0, 1>>
One == <<1, 1>>
NaN == <<0, 0>>
PosInf == <<1, 0>>
NegInf == <<-1, 0>>

IsNaN(a) == a = NaN
IsFinite(a) == a[2] > 0
InRange(a) == a # OutOfRange

RNeg(a) == IF a = OutOfRange THEN a ELSE <<-a[1], a[2]>>

RAdd(a, b) ==
    IF a = OutOfRange \/ b = OutOfRange THEN OutOfRange
    ELSE IF a[2] = 0 /\ b[2] = 0
    THEN IF a = b THEN a ELSE NaN          \* Inf + Inf, Inf - Inf, NaN
    ELSE IF a[2] = 0 THEN a
    ELSE IF b[2] = 0 THEN b
    ELSE LET g == Gcd(a[2], b[2])
             bd == b[2] \div g
             ad == a[2] \div g
         IN IF MulOk(a[1], bd) /\ MulOk(b[1], ad) /\ MulOk(ad, b[2])
               /\ AddOk(a[1] * bd, b[1] * ad)
            THEN Norm(a[1] * bd + b[1] * ad, ad * b[2])
            ELSE OutOfRange

RSub(a, b) == RAdd(a, RNeg(b))

RMul(a, b) ==
    IF a = OutOfRange \/ b = OutOfRange THEN OutOfRange
    ELSE IF a[2] = 0 \/ b[2] = 0 THEN <<Sign(a[1]) * Sign(b[1]), 0>>
    ELSE LET g1 == IF a[1] = 0 THEN b[2] ELSE Gcd(Abs(a[1]), b[2])
             g2 == IF b[1] = 0 THEN a[2] ELSE Gcd(Abs(b[1]), a[2])
             n1 == a[1] \div g1
             n2 == b[1] \div g2
             d1 == a[2] \div g2
             d2 == b[2] \div g1
         IN IF MulOk(n1, n2) /\ MulOk(d1, d2) THEN <<n1 * n2, d1 * d2>>
            ELSE OutOfRange

\* 1/a: 1/0 = +Inf (the model has no negative zero), 1/Inf = 0, 1/NaN = NaN
RInv(a) ==
    IF a = OutOfRange THEN OutOfRange
    ELSE IF a[1] = 0 THEN (IF a[2] = 0 THEN NaN ELSE PosInf)
    ELSE IF a[1] < 0 THEN <<-a[2], -a[1]>> ELSE <<a[2], a[1]>>

RDiv(a, b) == RMul(a, RInv(b))

\* n1/d1 < n2/d2 for non-negative fractions, by their continued fractions
\* (no product is formed, so none can leave the integer range)
RECURSIVE FracLt(_, _, _, _)
FracLt(n1, d1, n2, d2) ==
    LET q1 == n1 \div d1
        q2 == n2 \div d2
        r1 == n1 % d1
        r2 == n2 % d2
    IN IF q1 # q2 THEN q1 < q2
       ELSE IF r2 = 0 THEN FALSE
       ELSE IF r1 = 0 THEN TRUE
       ELSE FracLt(d2, r2, d1, r1)

\* IEEE comparisons: every comparison with NaN is false
RLt(a, b) ==
    /\ ~IsNaN(a) /\ ~IsNaN(b) /\ InRange(a) /\ InRange(b)
    /\ IF a[2] = 0 \/ b[2] = 0
       THEN (IF a[2] = 0 /\ b[2] = 0 THEN a[1] < b[1]
             ELSE IF a[2] = 0 THEN a[1] < 0 ELSE b[1] > 0)
       ELSE IF a[1] < 0 /\ b[1] >= 0 THEN TRUE
       ELSE IF a[1] >= 0 /\ b[1] < 0 THEN FALSE
       ELSE IF a[1] < 0 THEN FracLt(-b[1], b[2], -a[1], a[2])
       ELSE FracLt(a[1], a[2], b[1], b[2])
REq(a, b) == ~IsNaN(a) /\ ~IsNaN(b) /\ InRange(a) /\ InRange(b) /\ a = b
RLe(a, b) == RLt(a, b) \/ REq(a, b)
RGt(a, b) == RLt(b, a)

RAbs(a) == IF a = OutOfRange THEN a ELSE <<Abs(a[1]), a[2]>>

\* floor of the square root of a natural number
RECURSIVE ISqrtIn(_, _, _)
ISqrtIn(n, lo, hi) ==
    IF lo >= hi THEN lo
    ELSE LET mid == (lo + hi + 1) \div 2
         IN IF mid * mid <= n THEN ISqrtIn(n, mid, hi) ELSE ISqrtIn(n, lo, mid - 1)
ISqrt(n) == ISqrtIn(n, 0, IF n < 46340 THEN n ELSE 46340)   \* 46340^2 <= IntMax

\* sqrt of a number whose root is rational; sqrt(NaN) = NaN, sqrt(+Inf) = +Inf
RSqrt(a) ==
    IF a = OutOfRange THEN OutOfRange
    ELSE IF a[2] = 0 THEN (IF a = PosInf THEN PosInf ELSE NaN)
    ELSE IF a[1] < 0 THEN NaN
    ELSE <<ISqrt(a[1]), ISqrt(a[2])>>

--------------------------------------------------------------------------
(* glm::vec3, as <<x, y>> *)

ZeroVec == <<Zero, Zero>>
V(x, y) == <<R(x, 1), R(y, 1)>>

VAdd(u, v) == <<RAdd(u[1], v[1]), RAdd(u[2], v[2])>>
VSub(u, v) == <<RSub(u[1], v[1]), RSub(u[2], v[2])>>
VNeg(u) == <<RNeg(u[1]), RNeg(u[2])>>
VScale(u, k) == <<RMul(u[1], k), RMul(u[2], k)>>
VDivS(u, k) == <<RDiv(u[1], k), RDiv(u[2], k)>>
Dot(u, v) == RAdd(RMul(u[1], v[1]), RMul(u[2], v[2]))
VFinite(u) == IsFinite(u[1]) /\ IsFinite(u[2])
VInRange(u) == InRange(u[1]) /\ InRange(u[2])

\* operator== of glm::vec3
VEq(u, v) == REq(u[1], v[1]) /\ REq(u[2], v[2])

\* a vector along one axis (or zero): its length is the absolute value of
\* its one non-zero component
AxisAligned(u) == u[1] = Zero \/ u[2] = Zero

\* glm::length(v) = sqrt(dot(v, v))
Length(u) ==
    IF u[1] = Zero THEN RAbs(u[2])
    ELSE IF u[2] = Zero THEN RAbs(u[1])
    ELSE RSqrt(Dot(u, u))

\* glm::normalize(v) = v * inversesqrt(dot(v, v)); normalize(0) = 0 * Inf = NaN
Normalize(u) == VScale(u, RInv(Length(u)))

--------------------------------------------------------------------------
(* State *)

VARIABLES
    dt,           \* the global timestep of physics.h (one per process)
    Speed,        \* Physics::Speed
    endSim,       \* Physics::endSim
    bodies,       \* App::bodies: the sequence of Body records
    accumulator,  \* App::accumulator
    timeCount,    \* App::timeCount
    pc,           \* where the driver is: "idle" or inside the stepping loop
    steps,        \* history: number of processFrame calls made so far
    pushes,       \* history: number of impulses applied so far
    log,          \* history: the calls made by the latest processFrame
    before,       \* history: the bodies as the latest processFrame found them
    ref           \* history: the state at the last point the driver changed
                  \* the bodies, the frame time fed since, and the frame in
                  \* which the histories were started

engineVars == <<dt, Speed, endSim>>
vars == <<dt, Speed, endSim, bodies, accumulator, timeCount, pc, steps, pushes, log, before, ref>>

--------------------------------------------------------------------------
(* Constants of physics.h and physics.cpp *)

GRAV_CONST == One                   \* 6.67430e-11, in the model's mass unit
GRAV_FORCE == ZeroVec               \* glm::vec3(0.0f, 0.0f, 0.0f)
EPSILON == R(1, 1000)               \* 1e-3
minDistSq == One                    \* 1.0f
surfaceY == R(-2, 1)                \* -2.0f
restitution == R(-4, 5)             \* -0.8f
restThreshold == R(1, 10)           \* 0.1f
vLambda == Zero                     \* 0.0f

--------------------------------------------------------------------------
(* Physics: the private helpers.  Each takes and returns s = [b, log]:    *)
(* the bodies, and the calls made so far in this processFrame.  A call on  *)
(* body i (and j, or 0) is logged with the bodies as it found and left     *)
(* them.                                                                   *)

Call(s, op, i, j, bs) ==
    [b |-> bs,
     log |-> Append(s.log, [op |-> op, i |-> i, j |-> j, pre |-> s.b, post |-> bs])]

\* a value the code compares could not be computed within the integer range
Lost(s, x) == IF InRange(x) THEN s ELSE Call(s, "outOfRange", 1, 0, s.b)

Radius(body) == body.radius         \* sphere.geometry.getRadius()

\* Physics::isZero
isZero(vector) ==
    \/ VEq(vector, ZeroVec)
    \/ (RLt(RAbs(vector[1]), EPSILON) /\ RLt(RAbs(vector[2]), EPSILON))

\* the position integration of Physics::updateState
NewPosition(position, velocity) == VAdd(position, VScale(velocity, dt))

\* updateState as an explicit Euler step would be: the position integrated
\* with the velocity from before the step
updateStateExplicit(s, i) ==
    LET body == s.b[i]
        acc == VDivS(body.Force, body.Mass)
        vel == VAdd(body.Velocity, VScale(acc, dt))
        pos == NewPosition(body.Position, body.Velocity)
    IN Call(s, "updateState", i, 0,
            [s.b EXCEPT ![i] = [body EXCEPT !.Acceleration = acc,
                                            !.Velocity = vel,
                                            !.Position = pos]])

\* Physics::updateState
updateState(s, i) ==
    LET body == s.b[i]
        acc == VDivS(body.Force, body.Mass)
        vel == VAdd(body.Velocity, VScale(acc, dt))
        pos == NewPosition(body.Position, vel)
    IN Call(s, "updateState", i, 0,
            [s.b EXCEPT ![i] = [body EXCEPT !.Acceleration = acc,
                                            !.Velocity = vel,
                                            !.Position = pos]])

\* Physics::calculateDistanceSquare
calculateDistanceSquare(sphereOne, sphereTwo) ==
    LET vDistance == VSub(sphereTwo.Position, sphereOne.Position)
    IN Dot(vDistance, vDistance)

\* the distance clamp without its epsilon
ClampedBelowMin(fDistanceSq) == RLt(fDistanceSq, minDistSq)

\* the distance clamp of Physics::calculateGravForce
Clamped(fDistanceSq) == RLt(fDistanceSq, RAdd(minDistSq, EPSILON))

\* calculateGravForce without the reaction on the second body
calculateGravForceOneSided(s, i, j) ==
    LET sphereOne == s.b[i]
        sphereTwo == s.b[j]
        fDistanceSq == calculateDistanceSquare(sphereOne, sphereTwo)
        vDirOne == Normalize(VSub(sphereTwo.Position, sphereOne.Position))
        gravForce == RMul(GRAV_CONST,
                          RDiv(RMul(sphereOne.Mass, sphereTwo.Mass), fDistanceSq))
    IN IF Clamped(fDistanceSq)
       THEN Call(s, "calculateGravForce", i, j, s.b)
       ELSE Lost(Call(s, "calculateGravForce", i, j,
                      [s.b EXCEPT
                         ![i].vForceAccumulator =
                             VAdd(sphereOne.vForceAccumulator, VScale(vDirOne, gravForce))]),
                 fDistanceSq)

\* Physics::calculateGravForce
calculateGravForce(s, i, j) ==
    LET sphereOne == s.b[i]
        sphereTwo == s.b[j]
        fDistanceSq == calculateDistanceSquare(sphereOne, sphereTwo)
        vDirOne == Normalize(VSub(sphereTwo.Position, sphereOne.Position))
        vDirTwo == VNeg(vDirOne)
        gravForce == RMul(GRAV_CONST,
                          RDiv(RMul(sphereOne.Mass, sphereTwo.Mass), fDistanceSq))
    IN IF Clamped(fDistanceSq)
       THEN Call(s, "calculateGravForce", i, j, s.b)
       ELSE Lost(Call(s, "calculateGravForce", i, j,
                      [s.b EXCEPT
                         ![i].vForceAccumulator =
                             VAdd(sphereOne.vForceAccumulator, VScale(vDirOne, gravForce)),
                         ![j].vForceAccumulator =
                             VAdd(sphereTwo.vForceAccumulator, VScale(vDirTwo, gravForce))]),
                 fDistanceSq)

\* Physics::calculateForce
calculateForce(s, i) ==
    LET body == s.b[i]
        vGravForce == VScale(GRAV_FORCE, body.Mass)
    IN Call(s, "calculateForce", i, 0,
            [s.b EXCEPT ![i] = [body EXCEPT
                !.Force = VAdd(vGravForce, body.vForceAccumulator),
                !.vForceAccumulator = ZeroVec]])

\* Physics::onSurface
bottom(body) == RSub(body.Position[2], Radius(body))
onSurface(body) == RLe(bottom(body), RAdd(surfaceY, EPSILON))

\* a surface collision that reverses the vertical velocity without loss
processSurfaceCollisionElastic(s, i) ==
    LET body == s.b[i]
    IN Call(s, "processSurfaceCollision", i, 0,
            [s.b EXCEPT ![i] = [body EXCEPT
                !.Velocity = <<body.Velocity[1], RNeg(body.Velocity[2])>>,
                !.Position = <<body.Position[1], RAdd(surfaceY, Radius(body))>>]])

\* Physics::processSurfaceCollision
processSurfaceCollision(s, i) ==
    LET body == s.b[i]
        vy == RMul(body.Velocity[2], restitution)
        vyRest == IF RLt(RAbs(vy), restThreshold) THEN Zero ELSE vy
    IN Call(s, "processSurfaceCollision", i, 0,
            [s.b EXCEPT ![i] = [body EXCEPT
                !.Velocity = <<body.Velocity[1], vyRest>>,
                !.Position = <<body.Position[1], RAdd(surfaceY, Radius(body))>>]])

\* Physics::areColliding
sqDistance(sphereOne, sphereTwo) ==
    LET d == VSub(sphereOne.Position, sphereTwo.Position) IN Dot(d, d)
areColliding(sphereOne, sphereTwo) ==
    LET tRad == RAdd(Radius(sphereOne), Radius(sphereTwo))
        tRadSq == RMul(tRad, tRad)
    IN RLe(sqDistance(sphereOne, sphereTwo), RAdd(tRadSq, EPSILON))

\* velOne of Physics::processCollision
velOne(m1, m2, v1, v2) ==
    VDivS(VAdd(VScale(v1, RSub(m1, m2)), VScale(v2, RAdd(m2, m2))), RAdd(m1, m2))

\* velTwo left at the velocity the second body came with
velTwoKept(m1, m2, v1, v2) == v2

\* velTwo of Physics::processCollision
velTwo(m1, m2, v1, v2) ==
    VDivS(VAdd(VScale(v1, RAdd(m1, m2)), VScale(v2, RSub(m2, m1))), RAdd(m1, m2))

\* Physics::processCollision(sphereOne, sphereTwo), on bodies a and b
processCollision(s, a, b) ==
    LET sphereOne == s.b[a]
        sphereTwo == s.b[b]
        sep == VSub(sphereTwo.Position, sphereOne.Position)
        collisionNormal == Normalize(sep)
        distance == Length(sep)
        radiusSum == RAdd(Radius(sphereOne), Radius(sphereTwo))
        overlap == RSub(radiusSum, distance)
        correction == VScale(collisionNormal, RDiv(overlap, R(2, 1)))
        posOne == IF RGt(overlap, Zero) THEN VSub(sphereOne.Position, correction)
                  ELSE sphereOne.Position
        posTwo == IF RGt(overlap, Zero) THEN VAdd(sphereTwo.Position, correction)
                  ELSE sphereTwo.Position
        vOne == velOne(sphereOne.Mass, sphereTwo.Mass, sphereOne.Velocity, sphereTwo.Velocity)
        vTwo == velTwo(sphereOne.Mass, sphereTwo.Mass, sphereOne.Velocity, sphereTwo.Velocity)
    IN Lost(Call(s, "processCollision", a, b,
                 [s.b EXCEPT ![a] = [sphereOne EXCEPT !.Position = posOne, !.Velocity = vOne],
                             ![b] = [sphereTwo EXCEPT !.Position = posTwo, !.Velocity = vTwo]]),
            overlap)

\* the velocity decay at the end of the per-body block: exp(-vLambda * dt)
\* with vLambda = 0 is exp(-0) = 1 for every finite dt
vDecayFactor == IF vLambda = Zero /\ IsFinite(dt) THEN One ELSE NaN

decay(s, i) ==
    IF ~isZero(s.b[i].Velocity)
    THEN [b |-> [s.b EXCEPT ![i].Velocity = VScale(s.b[i].Velocity, vDecayFactor)],
          log |-> s.log]
    ELSE s

--------------------------------------------------------------------------
(* Physics::processFrame *)

\* the inner gravity loop without its test for light sources
RECURSIVE gravLoopAll(_, _, _)
gravLoopAll(s, i, j) ==
    IF j > Len(s.b) THEN s
    ELSE gravLoopAll(calculateGravForce(s, i, j), i, j + 1)

\* the inner gravity loop: for (j = i + 1; j < bodies.size(); ++j)
RECURSIVE gravLoop(_, _, _)
gravLoop(s, i, j) ==
    IF j > Len(s.b) THEN s
    ELSE IF s.b[j].source THEN gravLoop(s, i, j + 1)
    ELSE gravLoop(calculateGravForce(s, i, j), i, j + 1)

\* the inner collision loop without its test for bodies at rest
RECURSIVE collisionLoopAll(_, _, _)
collisionLoopAll(s, i, j) ==
    IF j > Len(s.b) THEN s
    ELSE IF s.b[j].source THEN collisionLoopAll(s, i, j + 1)
    ELSE LET t == Call(s, "areColliding", j, i, s.b)
         IN IF areColliding(t.b[j], t.b[i])
            THEN collisionLoopAll(processCollision(t, j, i), i, j + 1)
            ELSE collisionLoopAll(Lost(t, sqDistance(t.b[j], t.b[i])), i, j + 1)

\* the inner collision loop: for (j = i + 1; j < bodies.size(); ++j)
RECURSIVE collisionLoop(_, _, _)
collisionLoop(s, i, j) ==
    IF j > Len(s.b) THEN s
    ELSE IF s.b[j].source THEN collisionLoop(s, i, j + 1)
    ELSE LET t == Call(s, "areColliding", j, i, s.b)
         IN IF /\ areColliding(t.b[j], t.b[i])
               /\ ~(isZero(t.b[i].Velocity) /\ isZero(t.b[j].Velocity))
            THEN collisionLoop(processCollision(t, j, i), i, j + 1)
            ELSE collisionLoop(Lost(t, sqDistance(t.b[j], t.b[i])), i, j + 1)

\* if (onSurface(*body)) processSurfaceCollision(*body);
surfaceCheck(s, i) ==
    IF onSurface(s.b[i]) THEN processSurfaceCollision(s, i)
    ELSE Lost(s, bottom(s.b[i]))

\* one pass of the outer loop with the drain moved before the gravity loop
bodyBlockDrainFirst(s, i) ==
    LET s0 == [b |-> [s.b EXCEPT ![i].Force = ZeroVec], log |-> s.log]
    IN IF s0.b[i].source THEN s0
       ELSE LET s1 == calculateForce(s0, i)
                s2 == gravLoop(s1, i, i + 1)
                s3 == updateState(s2, i)
                s4 == surfaceCheck(s3, i)
                s5 == collisionLoop(s4, i, i + 1)
            IN decay(s5, i)

\* one pass of the outer loop with the gravity loop moved after the
\* integration
bodyBlockMoveFirst(s, i) ==
    LET s0 == [b |-> [s.b EXCEPT ![i].Force = ZeroVec], log |-> s.log]
    IN IF s0.b[i].source THEN s0
       ELSE LET s1 == calculateForce(s0, i)
                s2 == updateState(s1, i)
                s3 == gravLoop(s2, i, i + 1)
                s4 == surfaceCheck(s3, i)
                s5 == collisionLoop(s4, i, i + 1)
            IN decay(s5, i)

\* one pass of the outer loop, for body i
bodyBlock(s, i) ==
    LET s0 == [b |-> [s.b EXCEPT ![i].Force = ZeroVec], log |-> s.log]
    IN IF s0.b[i].source THEN s0
       ELSE LET s1 == gravLoop(s0, i, i + 1)
                s2 == calculateForce(s1, i)
                s3 == updateState(s2, i)
                s4 == surfaceCheck(s3, i)
                s5 == collisionLoop(s4, i, i + 1)
            IN decay(s5, i)

\* the outer loop: for (i = 0; i < bodies.size(); ++i)
RECURSIVE bodyLoop(_, _)
bodyLoop(s, i) == IF i > Len(s.b) THEN s ELSE bodyLoop(bodyBlock(s, i), i + 1)

\* Physics::processFrame: the bodies afterwards and the calls it made
processFrame(bs) == bodyLoop([b |-> bs, log |-> <<>>], 1)

\* Physics::push
push(sphere, impulse) == [sphere EXCEPT !.Velocity = VAdd(sphere.Velocity, impulse)]

\* Physics::shouldClose
shouldClose == endSim

--------------------------------------------------------------------------
(* Construction *)

\* Physics::Physics()
Physics0 == [dt |-> R(1, 60), Speed |-> R(3, 1), endSim |-> FALSE]
\* Physics::Physics(float speed)
Physics1(speed) == [dt |-> R(1, 60), Speed |-> speed, endSim |-> FALSE]
\* Physics::Physics(float timeStep, float speed)
Physics2(timeStep, speed) == [dt |-> timeStep, Speed |-> speed, endSim |-> FALSE]

\* the engines the model is run with
Engines == {Physics0, Physics2(One, One)}

\* struct Body with its default member initialisers, then configured as
\* App::setupProgram configures a ball
Body(mass, position, velocity, radius, source) ==
    [Mass |-> mass, Position |-> position, Velocity |-> velocity,
     Acceleration |-> ZeroVec, Force |-> ZeroVec, vForceAccumulator |-> ZeroVec,
     radius |-> radius, source |-> source]

\* the frames of App::run: physics runs in the frames with
\* timeCount > PhysicsStart, and the frame with timeCount = ImpulseFrame
\* applies the scripted impulse
PhysicsStart == 120
ImpulseFrame == 363

\* The scenes: three bodies on the vertical line x = 0, with the radii of
\* InitRadius.  A scene takes the heights of its bodies from one of InitY,
\* their displacements per timestep from one of InitVy and their masses
\* from one of InitMass; the bodies named by one of ExemptChoices are light
\* sources.  Velocities are the displacement divided by the engine's
\* timestep h, and masses are divided by h * h, so that an engine with
\* h = 1/60 and one with h = 1 both compute with small fractions.
InitRadius == << One, R(1, 2), R(1, 2) >>
InitY == { <<0, -1, 3>>, <<0, 2, 0>>, <<0, 1, 2>>, <<-1, 2, 3>> }
InitVy == { <<0, 0, 0>>, <<1, 0, -1>>, <<-1, 1, 0>> }
InitMass == { <<1, 1, 1>>, <<3, 1, 2>> }
ExemptChoices == { {}, {2}, {2, 3} }

Scenes(h) ==
    { [k \in 1..3 |->
          Body(RDiv(R(m[k], 1), RMul(h, h)), V(0, y[k]), VDivS(V(0, vy[k]), h),
               InitRadius[k], k \in ex)] :
      y \in InitY, vy \in InitVy, m \in InitMass, ex \in ExemptChoices }

\* the state a driver change (construction, an impulse) leaves behind
Mark(bs, acc, n, t) ==
    [bodies |-> bs, accumulator |-> acc, steps |-> n, fed |-> 0, frame |-> t]

\* App::run one or two frames before the frame of the scripted impulse,
\* with the bodies in one of the scenes, the accumulator empty and the
\* histories started afresh
Init ==
    /\ \E e \in Engines : dt = e.dt /\ Speed = e.Speed /\ endSim = e.endSim
    /\ bodies \in Scenes(dt)
    /\ accumulator = 0
    /\ timeCount \in {ImpulseFrame - 2, ImpulseFrame - 1}
    /\ pc = "idle"
    /\ steps = 0
    /\ pushes = 0
    /\ log = <<>>
    /\ before = bodies
    /\ ref = Mark(bodies, 0, 0, timeCount)

--------------------------------------------------------------------------
(* The clock: float arithmetic on the accumulator *)

\* a float has a significand of 24 bits
Significand == 2 ^ 24

\* the nearest whole number to n / d, halves to the even one
RoundDiv(n, d) ==
    LET q == n \div d
        r == n % d
    IN IF 2 * r < d THEN q
       ELSE IF 2 * r > d THEN q + 1
       ELSE IF q % 2 = 0 THEN q ELSE q + 1

\* the float nearest to the rational timestep h, in ticks: its significand
\* m, with Significand / 2 <= m < Significand, counts spacings and a tick
\* is half a spacing; a timestep of 0 is 0 ticks
Ticks(h) ==
    IF h = Zero THEN 0
    ELSE LET k == CHOOSE k \in 0..29 :
                      /\ (Significand \div 2) * h[2] <= h[1] * (2 ^ k)
                      /\ h[1] * (2 ^ k) < Significand * h[2]
         IN 2 * RoundDiv(h[1] * (2 ^ k), h[2])

\* the spacing, in ticks, of the floats around n ticks
RECURSIVE Spacing(_)
Spacing(n) == IF n < Significand THEN 1 ELSE 2 * Spacing(n \div 2)

\* the conversion of n >= 0 ticks to float: round to nearest, ties to even
RoundFloat(n) == Spacing(n) * RoundDiv(n, Spacing(n))

--------------------------------------------------------------------------
(* The driver: the fixed-timestep loop of App::run *)

MaxSteps == 3        \* processFrame calls explored per run
MaxPushes == 1       \* impulses explored per run

\* the frame times fed, as doubles: half a timestep, one timestep and
\* three timesteps, in ticks
FrameTimes == { Ticks(dt) \div 2, Ticks(dt), 3 * Ticks(dt) }

\* the impulses of the scripted demo, one per body: a velocity change of
\* one displacement unit per timestep up, down or sideways, or none
Impulses ==
    LET up == VDivS(V(0, 1), dt)
        side == VDivS(V(1, 0), dt)
    IN { <<up, ZeroVec, VNeg(up)>>, <<ZeroVec, up, side>> }

NonExempt(bs) == { k \in 1..Len(bs) : ~bs[k].source }

\* every number of the bodies was computed within the integer range
BodyInRange(body) ==
    /\ InRange(body.Mass) /\ InRange(body.radius)
    /\ VInRange(body.Position) /\ VInRange(body.Velocity)
    /\ VInRange(body.Acceleration) /\ VInRange(body.Force)
    /\ VInRange(body.vForceAccumulator)

\* the outcome r of a processFrame was computed exactly
Representable(r) ==
    /\ \A k \in 1..Len(r.b) : BodyInRange(r.b[k])
    /\ \A n \in 1..Len(r.log) :
          /\ r.log[n].op # "outOfRange"
          /\ \A k \in 1..Len(r.log[n].post) : BodyInRange(r.log[n].post[k])

\* a frame before physics starts: only timeCount++ (and the rendering)
Skip ==
    /\ pc = "idle"
    /\ ~shouldClose
    /\ timeCount <= PhysicsStart
    /\ timeCount' = timeCount + 1
    /\ UNCHANGED <<engineVars, bodies, accumulator, pc, steps, pushes, log, before, ref>>

\* accumulator += frameTime, in a frame other than that of the impulse
Accumulate(frameTime) ==
    /\ pc = "idle"
    /\ timeCount > PhysicsStart
    /\ timeCount # ImpulseFrame
    /\ steps < MaxSteps
    /\ ~shouldClose
    /\ accumulator' = RoundFloat(accumulator + frameTime)
    /\ pc' = "stepping"
    /\ ref' = [ref EXCEPT !.fed = ref.fed + frameTime]
    /\ UNCHANGED <<engineVars, bodies, timeCount, steps, pushes, log, before>>

\* the loop test with > in place of >=
LoopCondStrict(acc) == acc > Ticks(dt)

\* the test of while (accumulator >= dt)
LoopCond(acc) == acc >= Ticks(dt)

\* accumulator -= dt
Drain(acc) == RoundFloat(acc - Ticks(dt))

\* one pass of the while loop: processFrame(bodies); accumulator -= dt
Step ==
    /\ pc = "stepping"
    /\ LoopCond(accumulator)
    /\ steps < MaxSteps
    /\ LET r == processFrame(bodies)
       IN /\ Representable(r) = TRUE
          /\ bodies' = r.b
          /\ log' = r.log
    /\ before' = bodies
    /\ accumulator' = Drain(accumulator)
    /\ steps' = steps + 1
    /\ UNCHANGED <<engineVars, timeCount, pc, pushes, ref>>

\* the while loop ends, and the frame with it: timeCount++
Return ==
    /\ pc = "stepping"
    /\ ~LoopCond(accumulator)
    /\ pc' = "idle"
    /\ timeCount' = timeCount + 1
    /\ UNCHANGED <<engineVars, bodies, accumulator, steps, pushes, log, before, ref>>

\* an x-impulse is given only to a body that takes part in no pairwise
\* computation, so that every separation vector stays on the line x = 0
MayPush(i, impulse) ==
    impulse[1] = Zero \/ bodies[i].source \/ NonExempt(bodies) = {i}

\* the frame of the scripted impulse: accumulator += frameTime, then
\* Physics::push on each body, before the while loop
Impulse(frameTime, impulses) ==
    /\ pc = "idle"
    /\ timeCount = ImpulseFrame
    /\ steps < MaxSteps
    /\ pushes < MaxPushes
    /\ ~shouldClose
    /\ \A i \in 1..Len(bodies) : MayPush(i, impulses[i])
    /\ bodies' = [i \in 1..Len(bodies) |-> push(bodies[i], impulses[i])]
    /\ accumulator' = RoundFloat(accumulator + frameTime)
    /\ pc' = "stepping"
    /\ pushes' = pushes + 1
    /\ ref' = [Mark(bodies', accumulator, steps, ref.frame) EXCEPT !.fed = frameTime]
    /\ UNCHANGED <<engineVars, timeCount, steps, log, before>>

Next ==
    \/ \E frameTime \in FrameTimes : Accumulate(frameTime)
    \/ Step
    \/ Return
    \/ \E frameTime \in FrameTimes, impulses \in Impulses : Impulse(frameTime, impulses)

Spec == Init /\ [][Next]_vars

--------------------------------------------------------------------------
(* The stepping loop as one call *)

\* while (accumulator >= dt) { processFrame(bodies); accumulator -= dt; }
\* run to its end from bodies bs, accumulator acc and n steps so far
RECURSIVE whileLoop(_, _, _)
whileLoop(bs, acc, n) ==
    IF LoopCond(acc)
    THEN whileLoop(processFrame(bs).b, Drain(acc), n + 1)
    ELSE [bodies |-> bs, accumulator |-> acc, steps |-> n]

\* accumulator += realDelta, then the while loop, from the state m
advance(m, realDelta) ==
    whileLoop(m.bodies, RoundFloat(m.accumulator + realDelta), m.steps)

--------------------------------------------------------------------------
(* Properties *)

\* the calls of the last processFrame, by operation
CallsOf(op) == { n \in 1..Len(log) : log[n].op = op }

\* what call e added to the force accumulator of body k
Contribution(e, k) == VSub(e.post[k].vForceAccumulator, e.pre[k].vForceAccumulator)

\* the squared distance call e found between its two bodies
DistanceSq(e) == calculateDistanceSquare(e.pre[e.i], e.pre[e.j])

\* call e found its two bodies closer than the clamp: squared distance
\* below 1.0 + 1e-3
TooClose(e) == RLt(DistanceSq(e), R(1001, 1000))

\* C1: frame-rate independence.  Whenever the loop has returned control,
\* the bodies, the accumulator and the number of steps are what one call
\* fed the sum of the frame times would have left, however the sum was
\* split over the calls made (one delta of 3*dt against three of dt).
FrameRateIndependence ==
    pc = "idle" =>
        [bodies |-> bodies, accumulator |-> accumulator, steps |-> steps]
            = advance(ref, ref.fed)

GravityBeforeIntegration ==
    \A m \in CallsOf("updateState"), n \in CallsOf("calculateGravForce") : n < m

\* the calls of calculateGravForce of the last step cover the pairs of
\* non-exempt bodies once each and no pair with an exempt body
OncePerPair ==
    \A i \in 1..Len(bodies), j \in 1..Len(bodies) :
        i < j =>
            Cardinality({ n \in CallsOf("calculateGravForce") :
                              {log[n].i, log[n].j} = {i, j} })
                = IF bodies[i].source \/ bodies[j].source THEN 0 ELSE 1

\* call e changed nothing but the force accumulators of its two bodies
OnlyAccumulators(e) ==
    \A k \in 1..Len(e.pre) :
        IF k \in {e.i, e.j}
        THEN e.post[k] = [e.pre[k] EXCEPT !.vForceAccumulator =
                              e.post[k].vForceAccumulator]
        ELSE e.post[k] = e.pre[k]

\* the two contributions of call e sum to the zero vector
Opposite(e) == VAdd(Contribution(e, e.i), Contribution(e, e.j)) = ZeroVec

ClampLeavesAccumulators ==
    \A n \in CallsOf("calculateGravForce") :
        TooClose(log[n]) => log[n].post = log[n].pre

\* C5: a clamped call on two bodies of different mass, one unit apart
ClampWitness ==
    \E n \in CallsOf("calculateGravForce") :
        /\ DistanceSq(log[n]) = One
        /\ log[n].pre[log[n].i].Mass # log[n].pre[log[n].j].Mass

\* C6: in every physics step every body, exempt or not, is drained by
\* exactly one calculateForce call, and ends the step with a zero
\* accumulator
EveryBodyDrained ==
    steps > 0 =>
        \A k \in 1..Len(bodies) :
            /\ Cardinality({ n \in CallsOf("calculateForce") : log[n].i = k }) = 1
            /\ bodies[k].vForceAccumulator = ZeroVec

\* C7: a physics step moves every exempt body by its velocity times dt
ExemptIntegrated ==
    steps > 0 =>
        \A k \in 1..Len(bodies) :
            bodies[k].source =>
                bodies[k].Position = NewPosition(before[k].Position, before[k].Velocity)

\* C8: updateState moves the body by the updated velocity times dt times
\* Speed, and Speed does not enter the velocity update
SpeedScalesPosition ==
    \A n \in CallsOf("updateState") :
        LET was == log[n].pre[log[n].i]
            is == log[n].post[log[n].i]
        IN /\ is.Velocity = VAdd(was.Velocity, VScale(VDivS(was.Force, was.Mass), dt))
           /\ is.Position = VAdd(was.Position, VScale(VScale(is.Velocity, dt), Speed))

\* C9: semi-implicit Euler.  Every updateState call follows the
\* calculateForce call on the same body, which set force to the field force
\* plus the drained accumulator; acceleration is force / mass, the velocity
\* is advanced by acceleration * dt, and the position by the advanced
\* velocity * dt.
SemiImplicitEuler ==
    \A n \in CallsOf("updateState") :
        /\ n > 1
        /\ log[n - 1].op = "calculateForce"
        /\ log[n - 1].i = log[n].i
        /\ LET i == log[n].i
               drained == log[n - 1].pre[i]
               was == log[n].pre[i]
               is == log[n].post[i]
           IN /\ was.Force = VAdd(VScale(GRAV_FORCE, was.Mass), drained.vForceAccumulator)
              /\ is.Acceleration = VDivS(was.Force, was.Mass)
              /\ is.Velocity = VAdd(was.Velocity, VScale(is.Acceleration, dt))
              /\ is.Position = VAdd(was.Position, VScale(is.Velocity, dt))

\* C9: an updateState call on a moving body that changed its velocity
EulerWitness ==
    \E n \in CallsOf("updateState") :
        LET was == log[n].pre[log[n].i]
            is == log[n].post[log[n].i]
        IN /\ was.Velocity # ZeroVec
           /\ is.Velocity # was.Velocity
           /\ VFinite(is.Position)

\* C10: processCollision leaves the 1-D elastic velocities
\* v1' = ((m1 - m2) v1 + 2 m2 v2) / (m1 + m2) and
\* v2' = (2 m1 v1 + (m2 - m1) v2) / (m1 + m2)
ElasticVelocities ==
    \A n \in CallsOf("processCollision") :
        LET m1 == log[n].pre[log[n].i].Mass
            m2 == log[n].pre[log[n].j].Mass
            v1 == log[n].pre[log[n].i].Velocity
            v2 == log[n].pre[log[n].j].Velocity
        IN /\ log[n].post[log[n].i].Velocity =
                 VDivS(VAdd(VScale(v1, RSub(m1, m2)), VScale(v2, RAdd(m2, m2))),
                       RAdd(m1, m2))
           /\ log[n].post[log[n].j].Velocity =
                 VDivS(VAdd(VScale(v1, RAdd(m1, m1)), VScale(v2, RSub(m2, m1))),
                       RAdd(m1, m2))

\* the two bodies of a processCollision call e, as it found and left them
OneWas(e) == e.pre[e.i]
TwoWas(e) == e.pre[e.j]
OneIs(e) == e.post[e.i]
TwoIs(e) == e.post[e.j]

\* call e found its two bodies moving towards each other
Approaching(e) ==
    RGt(Dot(VSub(TwoWas(e).Position, OneWas(e).Position),
            VSub(OneWas(e).Velocity, TwoWas(e).Velocity)), Zero)

\* C11: a processCollision call on two bodies of equal mass with velocities
\* v and -v leaves the first with -v and the second with v
EqualMassExchange ==
    \A n \in CallsOf("processCollision") :
        LET e == log[n]
        IN (OneWas(e).Mass = TwoWas(e).Mass
              /\ TwoWas(e).Velocity = VNeg(OneWas(e).Velocity))
           => /\ OneIs(e).Velocity = VNeg(OneWas(e).Velocity)
              /\ TwoIs(e).Velocity = OneWas(e).Velocity

\* C11: a head-on collision of two moving bodies of equal mass
ExchangeWitness ==
    \E n \in CallsOf("processCollision") :
        LET e == log[n]
        IN /\ OneWas(e).Mass = TwoWas(e).Mass
           /\ TwoWas(e).Velocity = VNeg(OneWas(e).Velocity)
           /\ VFinite(OneWas(e).Velocity)
           /\ OneWas(e).Velocity # ZeroVec
           /\ Approaching(e)
           /\ OneIs(e).Velocity = TwoWas(e).Velocity

\* both components of velocity v are within 1e-3 of zero
NearZero(v) == RLt(RAbs(v[1]), R(1, 1000)) /\ RLt(RAbs(v[2]), R(1, 1000))

\* the collision test on the two bodies of call e: squared centre distance
\* at most (r1 + r2)^2 + 1e-3
Touching(e) ==
    LET d == VSub(OneWas(e).Position, TwoWas(e).Position)
        sum == RAdd(OneWas(e).radius, TwoWas(e).radius)
    IN RLe(Dot(d, d), RAdd(RMul(sum, sum), R(1, 1000)))

\* the collision stage of the last step tested every pair of non-exempt
\* bodies once and no pair with an exempt body
TestedOncePerPair ==
    \A i \in 1..Len(bodies), j \in 1..Len(bodies) :
        i < j =>
            Cardinality({ n \in CallsOf("areColliding") :
                              {log[n].i, log[n].j} = {i, j} })
                = IF bodies[i].source \/ bodies[j].source THEN 0 ELSE 1

\* call n + 1 is the processCollision that resolves the pair tested by call n
Resolved(n) ==
    /\ n < Len(log)
    /\ log[n + 1].op = "processCollision"
    /\ log[n + 1].i = log[n].i
    /\ log[n + 1].j = log[n].j

\* C12: in a physics step every pair of non-exempt bodies is tested once;
\* a pair that meets the collision test is resolved by processCollision
\* unless the velocities of both bodies are near zero; no other
\* processCollision call is made, so a pair at rest, a pair that does not
\* touch and a pair with an exempt body are left as they are.
CollisionGate ==
    steps > 0 =>
        /\ TestedOncePerPair
        /\ \A n \in CallsOf("areColliding") :
              Resolved(n) <=>
                  (Touching(log[n])
                     /\ ~(NearZero(OneWas(log[n]).Velocity)
                            /\ NearZero(TwoWas(log[n]).Velocity)))
        /\ \A n \in CallsOf("processCollision") :
              /\ n > 1
              /\ log[n - 1].op = "areColliding"
              /\ ~OneWas(log[n]).source
              /\ ~TwoWas(log[n]).source

\* C12: a step that skipped a touching pair whose bodies were both at rest
RestingWitness ==
    \E n \in CallsOf("areColliding") :
        /\ Touching(log[n])
        /\ NearZero(OneWas(log[n]).Velocity)
        /\ NearZero(TwoWas(log[n]).Velocity)
        /\ ~Resolved(n)

\* the line from the first to the second body of call e, as it found them
Separation(e) == VSub(TwoWas(e).Position, OneWas(e).Position)

\* (r1 + r2) of the two bodies of call e
RadiusSum(e) == RAdd(OneWas(e).radius, TwoWas(e).radius)

\* the overlap that call e found: (r1 + r2) - distance
Overlap(e) == RSub(RadiusSum(e), Length(Separation(e)))

\* how far call e moved its first and its second body
MoveOne(e) == VSub(OneIs(e).Position, OneWas(e).Position)
MoveTwo(e) == VSub(TwoIs(e).Position, TwoWas(e).Position)

\* call e moved each body by overlap / 2 away from the other, leaving the
\* centres r1 + r2 apart
PushedApart(e) ==
    /\ VEq(MoveOne(e), VNeg(MoveTwo(e)))
    /\ REq(Length(MoveTwo(e)), RDiv(Overlap(e), R(2, 1)))
    /\ RGt(Dot(MoveTwo(e), Separation(e)), Zero)
    /\ REq(Length(VSub(TwoIs(e).Position, OneIs(e).Position)), RadiusSum(e))

\* C13: a processCollision call that finds a positive overlap moves each
\* body by overlap / 2 in opposite directions along the line of centres,
\* away from the other, so that the centres end r1 + r2 apart; a call that
\* finds no positive overlap changes no position.
SymmetricCorrection ==
    \A n \in CallsOf("processCollision") :
        LET e == log[n]
        IN IF RGt(Overlap(e), Zero)
           THEN PushedApart(e)
           ELSE /\ OneIs(e).Position = OneWas(e).Position
                /\ TwoIs(e).Position = TwoWas(e).Position

\* call n + 1 is the processSurfaceCollision of the body that call n integrated
HitSurface(n) ==
    /\ n < Len(log)
    /\ log[n + 1].op = "processSurfaceCollision"
    /\ log[n + 1].i = log[n].i

\* the surface test on body: position.y - radius <= -2 + 1e-3
AtSurface(body) ==
    RLe(RSub(body.Position[2], body.radius), RAdd(R(-2, 1), R(1, 1000)))

\* -0.8 times the vertical velocity that call f found, or 0 when that is
\* less than 0.1 in magnitude
Rebound(f) ==
    LET vy == RMul(f.pre[f.i].Velocity[2], R(-4, 5))
    IN IF RLt(RAbs(vy), R(1, 10)) THEN Zero ELSE vy

\* call f changed only the vertical position and velocity of its body
OnlyVertical(f) ==
    /\ f.post = [f.pre EXCEPT ![f.i].Position = f.post[f.i].Position,
                              ![f.i].Velocity = f.post[f.i].Velocity]
    /\ f.post[f.i].Position[1] = f.pre[f.i].Position[1]
    /\ f.post[f.i].Velocity[1] = f.pre[f.i].Velocity[1]

--------------------------------------------------------------------------
(* One body above the surface *)

\* the scenes with one ball of radius 1 on the line x = 0: its height is one
\* of DropY and its displacement per timestep one of DropVy, as a velocity
\* for an engine with timestep h
DropY == { R(-1, 1), Zero, One }
DropVy == { Zero, R(-1, 10), R(-1, 1) }
DropScenes(h) ==
    { << Body(RDiv(One, RMul(h, h)), <<Zero, y>>, <<Zero, RDiv(vy, h)>>, One, FALSE) >> :
      y \in DropY, vy \in DropVy }

\* App::run at the start of the first frame in which physics runs, with a
\* scene of one ball
DropInit ==
    /\ \E e \in Engines : dt = e.dt /\ Speed = e.Speed /\ endSim = e.endSim
    /\ bodies \in DropScenes(dt)
    /\ accumulator = 0
    /\ timeCount = PhysicsStart + 1
    /\ pc = "idle"
    /\ steps = 0
    /\ pushes = 0
    /\ log = <<>>
    /\ before = bodies
    /\ ref = Mark(bodies, 0, 0, timeCount)

\* the frames of App::run without the scripted impulse
DropNext ==
    \/ \E frameTime \in FrameTimes : Accumulate(frameTime)
    \/ Step
    \/ Return

\* the condition under which Step can be taken
StepEnabled ==
    /\ pc = "stepping"
    /\ LoopCond(accumulator)
    /\ steps < MaxSteps
    /\ Representable(processFrame(bodies)) = TRUE

\* weak fairness of Step, WF_vars(Step), with ENABLED <<Step>>_vars written
\* out as StepEnabled (a step always counts one more in steps)
FairStep == []<>(~StepEnabled) \/ []<><<Step>>_vars

\* App::run keeps taking frames until shouldClose(), and in each frame runs
\* its while loop to the end
DropSpec ==
    /\ DropInit
    /\ [][DropNext]_vars
    /\ WF_vars(\E frameTime \in FrameTimes : Accumulate(frameTime))
    /\ WF_vars(Return)
    /\ FairStep

\* the last step put the first body through processSurfaceCollision while
\* it was moving down
Landed ==
    \E n \in CallsOf("processSurfaceCollision") :
        log[n].i = 1 /\ RLt(log[n].pre[1].Velocity[2], Zero)

\* the first body lies on the surface with no vertical velocity
Resting ==
    /\ bodies[1].Velocity[2] = Zero
    /\ bodies[1].Position[2] = RAdd(surfaceY, bodies[1].radius)

--------------------------------------------------------------------------
(* The scripted impulse *)

\* the bodies bs after Physics::push of impulses[i] on each body i, with
\* nothing but the velocities changed
Pushed(bs, impulses) ==
    [i \in 1..Len(bs) |-> [bs[i] EXCEPT !.Velocity = VAdd(bs[i].Velocity, impulses[i])]]

\* no processCollision call before call n of the last step involved body k
Untouched(n, k) ==
    \A m \in CallsOf("processCollision") : m < n => k \notin {log[m].i, log[m].j}

\* the last step integrated the position of body k with the velocity the
\* impulse left it: Velocity += Acceleration * dt from that velocity, then
\* Position += Velocity * dt
IntegratedAfterPush(k) ==
    \E n \in CallsOf("updateState") :
        LET was == log[n].pre[k]
            is == log[n].post[k]
        IN /\ log[n].i = k
           /\ Untouched(n, k) => was.Velocity = ref.bodies[k].Velocity
           /\ is.Velocity = VAdd(was.Velocity, VScale(is.Acceleration, dt))
           /\ is.Position = VAdd(was.Position, VScale(is.Velocity, dt))

\* the last step is the first one since the impulse
FirstStepAfterPush == pushes > 0 /\ steps = ref.steps + 1

\* C16: the scripted impulse adds its vector to the velocity of each body
\* and changes nothing else, it is applied before the physics steps of its
\* frame, and the first step after it integrates the position of each
\* pushed body with the changed velocity.
PushThenIntegrate ==
    /\ [][pushes' # pushes =>
            /\ pc = "idle" /\ pc' = "stepping" /\ steps' = steps
            /\ \E impulses \in Impulses : bodies' = Pushed(bodies, impulses)]_vars
    /\ [](FirstStepAfterPush =>
            \A k \in 1..Len(bodies) : IntegratedAfterPush(k))

--------------------------------------------------------------------------
(* Termination *)

\* physics.h documents "Boundary checking: terminate simulation if body
\* crosses threshold" and no file gives the threshold a value or a test;
\* Threshold stands for it, as a distance from the origin that the bodies of
\* the scenes reach within a step or two
Threshold == R(4, 1)

\* body lies farther than Threshold from the origin
Crossed(body) == RGt(Dot(body.Position, body.Position), RMul(Threshold, Threshold))

\* C17: once a physics step has left a body beyond the boundary threshold,
\* shouldClose() returns true.
BoundaryStops ==
    (steps > 0 /\ \E k \in 1..Len(bodies) : Crossed(bodies[k])) => shouldClose

--------------------------------------------------------------------------
(* setupProgram: configuring the bodies and registering them *)

\* Sphere3D::Sphere3D(): the radius of a sphere that setRadius was never
\* called on
Sentinel == R(-1, 1)

\* Renderer::drawSphere without its test of the radius
drawSphereAsIs(body) == body

\* Renderer::drawSphere, as far as the body is concerned
drawSphere(body) ==
    IF RLt(Radius(body), Zero) THEN [body EXCEPT !.radius = One] ELSE body

\* The configurations: two balls on the line x = 0, the first at the origin
\* and the second at one of ConfigY, moving as one of ConfigVy says
\* (displacement per timestep); their Mass fields are assigned one of
\* ConfigMass and their radii are set as one of ConfigRadius says, Sentinel
\* for a ball that setRadius is not called on.
ConfigY == { R(3, 2), R(-3, 2) }
ConfigVy == { <<Zero, Zero>>, <<Zero, R(-1, 1)>> }
ConfigMass == { <<One, One>>, <<Zero, One>>, <<One, R(-1, 1)>> }
ConfigRadius == { <<One, R(1, 2)>>, <<Sentinel, R(1, 2)>>, <<One, Sentinel>> }
Configurations(h) ==
    { << Body(RDiv(m[1], RMul(h, h)), ZeroVec, <<Zero, RDiv(vy[1], h)>>, r[1], FALSE),
         Body(RDiv(m[2], RMul(h, h)), <<Zero, y>>, <<Zero, RDiv(vy[2], h)>>, r[2], FALSE) >> :
      y \in ConfigY, vy \in ConfigVy, m \in ConfigMass, r \in ConfigRadius }

\* App::run has entered setupProgram, which has configured the balls and
\* put them in bodies
SetupInit ==
    /\ \E e \in Engines : dt = e.dt /\ Speed = e.Speed /\ endSim = e.endSim
    /\ bodies \in Configurations(dt)
    /\ accumulator = 0
    /\ timeCount = 0
    /\ pc = "setup"
    /\ steps = 0
    /\ pushes = 0
    /\ log = <<>>
    /\ before = bodies
    /\ ref = Mark(bodies, 0, 0, timeCount)

\* the rest of setupProgram: for (Body *body: bodies) rEngine.drawSphere(*body)
Register ==
    /\ pc = "setup"
    /\ bodies' = [i \in 1..Len(bodies) |-> drawSphere(bodies[i])]
    /\ before' = bodies'
    /\ pc' = "idle"
    /\ UNCHANGED <<engineVars, accumulator, timeCount, steps, pushes, log, ref>>

\* App::run from setupProgram on, without the scripted impulse
SetupNext ==
    \/ Register
    \/ Skip
    \/ \E frameTime \in FrameTimes : Accumulate(frameTime)
    \/ Step
    \/ Return

SetupSpec == SetupInit /\ [][SetupNext]_vars

\* C18: in every state in which processFrame runs every body has a mass
\* greater than 0: a mass of zero or less is rejected or clamped before.
PositiveMass ==
    /\ StepEnabled => \A k \in 1..Len(bodies) : RGt(bodies[k].Mass, Zero)
    /\ steps > 0 => \A k \in 1..Len(before) : RGt(before[k].Mass, Zero)

\* C19: in every state in which processFrame runs, and so evaluates
\* onSurface or areColliding, every body has a radius greater than 0: the
\* negative radius of a sphere that was never given one has been replaced
\* by a positive default.
RadiusNormalised ==
    /\ StepEnabled => \A k \in 1..Len(bodies) : RGt(bodies[k].radius, Zero)
    /\ \A n \in CallsOf("updateState") \cup CallsOf("areColliding") :
          \A k \in 1..Len(bodies) : RGt(log[n].pre[k].radius, Zero)

\* C19: a step that tested for a collision, and for the surface, a body
\* that was configured without a radius
SentinelWitness ==
    \E k \in 1..Len(bodies) :
        /\ ref.bodies[k].radius = Sentinel
        /\ \E n \in CallsOf("areColliding") : k \in {log[n].i, log[n].j}
        /\ \E n \in CallsOf("updateState") : log[n].i = k

--------------------------------------------------------------------------
(* Bodies at the same place *)

\* every position and velocity component of the bodies bs is a finite number
AllFinite(bs) ==
    \A k \in 1..Len(bs) : VFinite(bs[k].Position) /\ VFinite(bs[k].Velocity)

\* non-exempt bodies i and j of bs are at the identical position
Coincident(bs, i, j) ==
    /\ i # j
    /\ ~bs[i].source /\ ~bs[j].source
    /\ bs[i].Position = bs[j].Position

\* C20: a physics step that starts with finite bodies, two non-exempt ones
\* of them at the identical position, ends with every position and velocity
\* component of those two a finite number.
CoincidentStaysFinite ==
    steps > 0 =>
        \A i \in 1..Len(before), j \in 1..Len(before) :
            (AllFinite(before) /\ Coincident(before, i, j))
                => /\ VFinite(bodies[i].Position) /\ VFinite(bodies[i].Velocity)
                   /\ VFinite(bodies[j].Position) /\ VFinite(bodies[j].Velocity)

--------------------------------------------------------------------------
(* Momentum *)

\* the sum of Mass * Velocity over the non-exempt bodies of bs from k on
RECURSIVE MomentumFrom(_, _)
MomentumFrom(bs, k) ==
    IF k > Len(bs) THEN ZeroVec
    ELSE IF bs[k].source THEN MomentumFrom(bs, k + 1)
    ELSE VAdd(VScale(bs[k].Velocity, bs[k].Mass), MomentumFrom(bs, k + 1))

\* the total momentum of the non-exempt bodies of bs
Momentum(bs) == MomentumFrom(bs, 1)

\* bodies is what the last step made of before: no impulse came since
AfterStep == steps > ref.steps

\* the last step resolved no collision, neither with the surface nor
\* between two bodies
NoCollision ==
    CallsOf("processCollision") \cup CallsOf("processSurfaceCollision") = {}

\* the last step started from two non-exempt bodies, all numbers finite
TwoBodySystem ==
    /\ Cardinality(NonExempt(before)) = 2
    /\ AllFinite(before)

\* C21: a physics step of a system of two non-exempt bodies that resolves
\* no collision leaves the total momentum m1 * v1 + m2 * v2 as it was.
MomentumConserved ==
    (AfterStep /\ TwoBodySystem /\ NoCollision)
        => VEq(Momentum(bodies), Momentum(before))

\* C21: such a step in which the two bodies attracted each other and
\* changed their velocities
MomentumWitness ==
    /\ AfterStep /\ TwoBodySystem /\ NoCollision
    /\ \E k \in NonExempt(before) :
          /\ bodies[k].Velocity # before[k].Velocity
          /\ VFinite(bodies[k].Velocity)
    /\ Momentum(before) # ZeroVec

--------------------------------------------------------------------------
(* A second engine in the same process *)

\* The constructor of another Physics object, e, runs between two frames of
\* App::run: it initialises its own Speed and endSim and assigns the global
\* dt of physics.h.  The accumulator is counted in ticks of dt, so the
\* construction is taken at the frames that start with an empty accumulator.
Construct(e) ==
    /\ pc = "idle"
    /\ accumulator = 0
    /\ dt' = e.dt
    /\ UNCHANGED <<Speed, endSim, bodies, accumulator, timeCount, pc, steps, pushes, log, before, ref>>

\* App::run on one ball, with other engines constructed meanwhile
SharedNext ==
    \/ \E frameTime \in FrameTimes : Accumulate(frameTime)
    \/ Step
    \/ Return
    \/ \E e \in Engines : Construct(e)

SharedSpec == DropInit /\ [][SharedNext]_vars

\* C22: the timestep that an engine and its driver loop use is the one the
\* engine was constructed with: no later step of the process, the
\* construction of another engine included, changes it.
TimestepPerEngine == [][dt' = dt]_vars

--------------------------------------------------------------------------
(* Frames and steps *)

\* the number of physics steps that a run of one frame per timestep has
\* made, since the histories were started, when it comes to the frame of
\* the scripted impulse: one in each frame
StepsAtImpulse == ImpulseFrame - ref.frame

\* C23: whatever the frame times, the scripted impulse is applied after the
\* same number of physics steps, the number that a run of one frame per
\* timestep has made by then.
ImpulseAfterSameSteps == pushes > 0 => ref.steps = StepsAtImpulse

\* C24: timeCount is the number of physics steps executed: in every state
\* of App::run it equals the number of processFrame calls made so far.
TimeCountCountsSteps == timeCount = steps

--------------------------------------------------------------------------
(* Engines of any timestep *)

\* the engines of Engines, and one constructed with Physics(0.0f, 1.0f)
AnyEngines == Engines \cup {Physics2(Zero, One)}

\* one ball of radius 1 and mass 1 at rest, at one of the heights of DropY
StillScenes == { << Body(One, <<Zero, y>>, ZeroVec, One, FALSE) >> : y \in DropY }

\* App::run at the start of the first frame in which physics runs, with an
\* engine of AnyEngines and a ball at rest
TimestepInit ==
    /\ \E e \in AnyEngines : dt = e.dt /\ Speed = e.Speed /\ endSim = e.endSim
    /\ bodies \in StillScenes
    /\ accumulator = 0
    /\ timeCount = PhysicsStart + 1
    /\ pc = "idle"
    /\ steps = 0
    /\ pushes = 0
    /\ log = <<>>
    /\ before = bodies
    /\ ref = Mark(bodies, 0, 0, timeCount)

TimestepSpec == TimestepInit /\ [][DropNext]_vars

\* C25: the loop while (accumulator >= dt) makes finitely many steps,
\* whatever the engine's timestep and the frame time: every pass of the loop
\* leaves the accumulator smaller than it found it, so that the test fails
\* after finitely many passes.
LoopRunsOut == [][steps' # steps => accumulator' < accumulator]_vars

--------------------------------------------------------------------------
(* The drain *)

\* the calls of calculateGravForce of the last step on the pair of bodies
\* k and m
PairCalls(k, m) ==
    { n \in CallsOf("calculateGravForce") : {log[n].i, log[n].j} = {k, m} }

\* the calls of calculateForce of the last step on body k
Drains(k) == { n \in CallsOf("calculateForce") : log[n].i = k }

\* C26: in every physics step every non-exempt body is drained by one
\* calculateForce call; for every other non-exempt body the one
\* calculateGravForce call on the pair comes before that drain; no
\* calculateGravForce call on the body comes after it; and the body ends
\* the step with the zero accumulator the drain left.
DrainComplete ==
    steps > 0 =>
        \A k \in NonExempt(bodies) :
            /\ Cardinality(Drains(k)) = 1
            /\ \A d \in Drains(k) :
                  /\ \A m \in NonExempt(bodies) \ {k} :
                        /\ Cardinality(PairCalls(k, m)) = 1
                        /\ \A n \in PairCalls(k, m) : n < d
                  /\ \A n \in CallsOf("calculateGravForce") :
                        k \in {log[n].i, log[n].j} => n < d
                  /\ log[d].post[k].vForceAccumulator = ZeroVec
            /\ bodies[k].vForceAccumulator = ZeroVec

\* C26: a step on three non-exempt bodies in which the second was drained
\* of a non-zero sum, fed by a call made in the first body's pass and a
\* call made in its own
DrainWitness ==
    /\ steps > 0
    /\ NonExempt(bodies) = {1, 2, 3}
    /\ \E d \in Drains(2) :
          /\ log[d].pre[2].vForceAccumulator # ZeroVec
          /\ VFinite(log[d].pre[2].vForceAccumulator)
          /\ \E n \in PairCalls(1, 2) : Contribution(log[n], 2) # ZeroVec
          /\ \E n \in PairCalls(2, 3) : Contribution(log[n], 2) # ZeroVec

--------------------------------------------------------------------------
(* The two-phase step *)

\* the first phase: the start of every pass of processFrame's outer loop,
\* up to the end of its gravity loop, for the bodies from i on
RECURSIVE accumulatePhase(_, _)
accumulatePhase(s, i) ==
    IF i > Len(s.b) THEN s
    ELSE LET s0 == [b |-> [s.b EXCEPT ![i].Force = ZeroVec], log |-> s.log]
         IN accumulatePhase(IF s0.b[i].source THEN s0 ELSE gravLoop(s0, i, i + 1),
                            i + 1)

\* the second phase: the rest of every pass, without the collision loop,
\* for the bodies from i on
RECURSIVE integratePhase(_, _)
integratePhase(s, i) ==
    IF i > Len(s.b) THEN s
    ELSE integratePhase(
             IF s.b[i].source THEN s
             ELSE decay(surfaceCheck(updateState(calculateForce(s, i), i), i), i),
             i + 1)

\* all the pair forces first, then every body integrated
twoPhase(bs) == integratePhase(accumulatePhase([b |-> bs, log |-> <<>>], 1), 1).b

\* C27: after a physics step in which processCollision was not called,
\* every calculateGravForce call found its two bodies at the positions they
\* had at the start of the step, and the step left every body as the
\* two-phase step leaves it.
InterleavedIsTwoPhase ==
    (AfterStep /\ CallsOf("processCollision") = {}) =>
        /\ \A n \in CallsOf("calculateGravForce") :
              /\ log[n].pre[log[n].i].Position = before[log[n].i].Position
              /\ log[n].pre[log[n].j].Position = before[log[n].j].Position
        /\ bodies = twoPhase(before)

\* C27: a step on three non-exempt bodies without a processCollision call,
\* in which the first body had moved when the pair of the second and the
\* third added a non-zero force
TwoPhaseWitness ==
    /\ AfterStep
    /\ CallsOf("processCollision") = {}
    /\ NonExempt(bodies) = {1, 2, 3}
    /\ \E n \in PairCalls(2, 3) :
          /\ log[n].pre[1].Position # before[1].Position
          /\ Contribution(log[n], 2) # ZeroVec
          /\ VFinite(Contribution(log[n], 2))

--------------------------------------------------------------------------
(* Momentum of a colliding pair *)

\* C28: a processCollision call on two bodies of positive mass and finite
\* velocities leaves the momentum of the pair, m1 * v1 + m2 * v2, as it
\* found it
PairMomentumConserved ==
    \A n \in CallsOf("processCollision") :
        LET e == log[n]
        IN (/\ RGt(OneWas(e).Mass, Zero) /\ IsFinite(OneWas(e).Mass)
            /\ RGt(TwoWas(e).Mass, Zero) /\ IsFinite(TwoWas(e).Mass)
            /\ VFinite(OneWas(e).Velocity) /\ VFinite(TwoWas(e).Velocity))
           => VEq(VAdd(VScale(OneIs(e).Velocity, OneIs(e).Mass),
                       VScale(TwoIs(e).Velocity, TwoIs(e).Mass)),
                  VAdd(VScale(OneWas(e).Velocity, OneWas(e).Mass),
                       VScale(TwoWas(e).Velocity, TwoWas(e).Mass)))

--------------------------------------------------------------------------
(* Sinking *)

\* C29: at the end of every physics step every non-exempt body is at a
\* height position.y >= surfaceY + radius - EPSILON
NoSinking ==
    AfterStep =>
        \A k \in NonExempt(bodies) :
            RLe(RSub(RAdd(surfaceY, Radius(bodies[k])), EPSILON),
                bodies[k].Position[2])

--------------------------------------------------------------------------
(* Two steps in a row *)

\* processCollision call e left its two bodies moving apart along the line
\* of their centres
Separating(e) ==
    RGt(Dot(VSub(TwoIs(e).Position, OneIs(e).Position),
            VSub(TwoIs(e).Velocity, OneIs(e).Velocity)), Zero)

\* C30: a pair of bodies that processCollision resolved in one physics step
\* and left moving apart along the line of centres is not resolved by
\* processCollision in the step that follows
NotResolvedAgain ==
    [][(AfterStep /\ steps' = steps + 1) =>
          \A n \in CallsOf("processCollision") :
              Separating(log[n]) =>
                  \A m \in 1..Len(log') :
                      ~(/\ log'[m].op = "processCollision"
                        /\ {log'[m].i, log'[m].j} = {log[n].i, log[n].j})]_vars

====
